---- MODULE Spec2Model ----
(***************************************************************************)
(* Model of src/src/wayland/wlr-toplevel.c: the client of the              *)
(* wlr-foreign-toplevel-management protocol that reports focus changes.    *)
(*                                                                         *)
(* The module's static variables are the state.  Every listener callback   *)
(* (title, app_id, state, done, closed, toplevel, finished, global) is one *)
(* action; an entry point that runs a dispatch loop (init, dispatch,       *)
(* read_events) is a position pc that the listener actions run under.      *)
(* The wl_display of libwayland-client is modelled by what the entry       *)
(* points observe of it: the events read but not dispatched (queue), the   *)
(* sticky error (last_error) and the read intents (reader_count).  What    *)
(* the compositor does is a choice made where the client observes it: the  *)
(* result of poll, the number of events a read queues, whether the read    *)
(* meets a wl_display.error or the end of the stream, and the content of   *)
(* each event when it is dispatched, among the events a conforming         *)
(* compositor may send then.  ret, calls and freed hold what the last step *)
(* of the client returned, called and released.                            *)
(***************************************************************************)
EXTENDS Integers, Sequences, FiniteSets, TLC

\* ---- bounds of the model
MaxConn == 2        \* connections that can be open at the same time
MaxHandles == 2     \* toplevel handles that can be alive at the same time
MaxMgr == 2         \* manager proxies that can be alive at the same time
MaxQueue == 2       \* events one read or round-trip can queue
MaxErrQueue == 1    \* events queued behind a wl_display.error
MaxStateLen == 2    \* entries of one state array

\* ---- values
NULL == 0
NoText == "NULL"                \* a char* that is NULL
Titles == {"draft", "notes"}    \* the titles a compositor sends
AppIds == {"editor"}            \* the application ids a compositor sends
Callbacks == {1, 2}             \* the host's callback functions
ZWLR_FOREIGN_TOPLEVEL_HANDLE_V1_STATE_ACTIVATED == 2
\* the entries of a state array: maximized (0) stands for every other flag
StateFlags == {0, ZWLR_FOREIGN_TOPLEVEL_HANDLE_V1_STATE_ACTIVATED}

Conns == 1..MaxConn
Handles == 1..MaxHandles
Mgrs == 1..MaxMgr

RECURSIVE SeqsUpTo(_, _)
SeqsUpTo(S, n) ==
    IF n = 0 THEN {<<>>}
    ELSE LET shorter == SeqsUpTo(S, n - 1)
         IN shorter \cup {Append(s, x) : s \in shorter, x \in S}

StateArrays == SeqsUpTo(StateFlags, MaxStateLen)

\* ---- state
VARIABLES
    simple_callback,    \* the callback slot: NULL or a callback
    display,            \* NULL or the connection
    registry,           \* NULL or the wl_registry proxy (named by its connection)
    toplevel_manager,   \* NULL or the manager proxy
    toplevels,          \* the linked list of records, head first
    rec,                \* the records: handle = NULL where none is allocated
    conns,              \* per connection: "open" or "closed"
    regs,               \* per wl_registry proxy: "live" or "dead"
    mgrs,               \* per manager proxy: "live" or "dead", and its connection
    wl,                 \* the wl_display state of the connection display names
    pc,                 \* where the host's thread is
    ret,                \* the entry point the last step returned from and its
                        \* value (0 for a void one), or NoRet
    calls,              \* the callback invocations of the last step
    freed,              \* the objects the last step released, in order (a record's
                        \* strings go with the record)
    lastAct,            \* per record: its last state event held the activated flag
    twice               \* the objects the last step released while not alive

vars == <<simple_callback, display, registry, toplevel_manager, toplevels, rec,
          conns, regs, mgrs, wl, pc, ret, calls, freed, lastAct, twice>>

\* struct toplevel_handle after calloc
NoRec == [handle |-> NULL, app_id |-> NoText, title |-> NoText, focused |-> 0,
          conn |-> NULL]
NoMgr == [st |-> "dead", conn |-> NULL]
NoWl == [queue |-> 0, last_error |-> "none", reader_count |-> 0]
NoRet == [op |-> "none", val |-> 0]

Obj(kind, id) == [kind |-> kind, id |-> id]

\* what one read of the socket can bring: n events, and with e a
\* wl_display.error or the end of the stream
Arrivals == {a \in (0..MaxQueue) \X BOOLEAN : a[2] => a[1] <= MaxErrQueue}

\* The connections the module can still reach: through display, registry, the
\* manager it holds, or a record of the list.  A connection it cannot reach
\* is leaked: it stays open, nothing is dispatched on it again, and the model
\* forgets it and its proxies.
Reach(d, r, m, ms, list, heap) ==
    {c \in Conns : \/ c = d
                   \/ c = r
                   \/ m # NULL /\ ms[m].conn = c
                   \/ \E i \in 1..Len(list) : heap[list[i]].conn = c}
ForgetConns(reach, cs) == [c \in Conns |-> IF c \in reach THEN cs[c] ELSE "closed"]
ForgetRegs(reach, rs) == [c \in Conns |-> IF c \in reach THEN rs[c] ELSE "dead"]
ForgetMgrs(reach, ms) ==
    [m \in Mgrs |-> IF ms[m].conn \in reach THEN ms[m] ELSE [st |-> "dead", conn |-> NULL]]

Init ==
    /\ simple_callback = NULL
    /\ display = NULL
    /\ registry = NULL
    /\ toplevel_manager = NULL
    /\ toplevels = <<>>
    /\ rec = [h \in Handles |-> NoRec]
    /\ conns = [c \in Conns |-> "closed"]
    /\ regs = [c \in Conns |-> "dead"]
    /\ mgrs = [m \in Mgrs |-> NoMgr]
    /\ wl = NoWl
    /\ pc = "idle"
    /\ ret = NoRet
    /\ calls = <<>>
    /\ freed = <<>>
    /\ lastAct = [h \in Handles |-> FALSE]
    /\ twice = {}

\* ---- the listeners' code, as functions of the record

strdup(s) == s

\* a title listener that keeps the old title when the new one is absent
toplevel_handle_title_keeps(t, title) ==
    IF title # NoText THEN [t EXCEPT !.title = strdup(title)] ELSE t

\* toplevel_handle_title: free(t->title); t->title = title ? strdup(title) : NULL
toplevel_handle_title(t, title) ==
    [t EXCEPT !.title = IF title # NoText THEN strdup(title) ELSE NoText]

\* toplevel_handle_app_id
toplevel_handle_app_id(t, app_id) ==
    [t EXCEPT !.app_id = IF app_id # NoText THEN strdup(app_id) ELSE NoText]

\* wl_array_for_each with its break: 1 at the first activated entry
RECURSIVE ScanActivated(_, _)
ScanActivated(state, i) ==
    IF i > Len(state) THEN 0
    ELSE IF state[i] = ZWLR_FOREIGN_TOPLEVEL_HANDLE_V1_STATE_ACTIVATED THEN 1
    ELSE ScanActivated(state, i + 1)

\* a state listener without the reset t->focused = 0
toplevel_handle_state_sticky(t, state) ==
    [t EXCEPT !.focused = IF ScanActivated(state, 1) = 1 THEN 1 ELSE t.focused]

\* toplevel_handle_state, the record: t->focused = 0, then the scan
toplevel_handle_state(t, state) ==
    [t EXCEPT !.focused = ScanActivated(state, 1)]

\* a notification that passes the fields as they are, NULL included
StateNotifyRaw(before, t, cb) ==
    IF t.focused # 0 /\ before.focused = 0 /\ cb # NULL
    THEN <<[cb |-> cb, app_id |-> t.app_id, title |-> t.title,
            focused |-> t.focused, h |-> t.handle]>>
    ELSE <<>>

\* a notification without the test of was_focused
StateNotifyLevel(before, t, cb) ==
    IF t.focused # 0 /\ cb # NULL
    THEN <<[cb |-> cb,
            app_id |-> IF t.app_id # NoText THEN t.app_id ELSE "",
            title |-> IF t.title # NoText THEN t.title ELSE "",
            focused |-> t.focused,
            h |-> t.handle]>>
    ELSE <<>>

\* a notification that takes was_focused from one flag for all the records
StateNotifyGlobal(before, t, cb) ==
    IF t.focused # 0 /\ (\A k \in Handles : rec[k].focused = 0) /\ cb # NULL
    THEN <<[cb |-> cb,
            app_id |-> IF t.app_id # NoText THEN t.app_id ELSE "",
            title |-> IF t.title # NoText THEN t.title ELSE "",
            focused |-> t.focused,
            h |-> t.handle]>>
    ELSE <<>>

\* toplevel_handle_state, the notification: the calls made, given the record
\* before (for was_focused) and after the scan
StateNotify(before, t, cb) ==
    IF t.focused # 0 /\ before.focused = 0 /\ cb # NULL
    THEN <<[cb |-> cb,
            app_id |-> IF t.app_id # NoText THEN t.app_id ELSE "",
            title |-> IF t.title # NoText THEN t.title ELSE "",
            focused |-> t.focused,
            h |-> t.handle]>>
    ELSE <<>>

\* ---- the dispatch of one queued event

\* inside wl_display_dispatch_pending or wl_display_roundtrip
InDispatch == pc \in {"init_rt2", "dispatch", "read_drain", "read_dispatch"}

\* dispatch_queue has a next event of the default queue to hand to a listener
EventReady ==
    /\ InDispatch
    /\ display # NULL
    /\ wl.last_error = "none"
    /\ wl.queue > 0

\* the first round-trip of init delivers the globals only
GlobalReady ==
    /\ (InDispatch \/ pc = "init_rt1")
    /\ display # NULL
    /\ wl.last_error = "none"
    /\ wl.queue > 0

Consume == wl' = [wl EXCEPT !.queue = @ - 1]

\* the handle h is a live proxy of the current connection
Alive(h) == rec[h].handle # NULL /\ rec[h].conn = display

\* the manager proxy m is a live proxy of the current connection
MgrAlive(m) == mgrs[m].st = "live" /\ mgrs[m].conn = display

HasActivated(state) ==
    \E i \in 1..Len(state) : state[i] = ZWLR_FOREIGN_TOPLEVEL_HANDLE_V1_STATE_ACTIVATED

\* a closed listener without the unlink
UnlinkNone(list, t) == list

\* an unlink that drops the head of the list, whatever t is
UnlinkHead(list, t) == IF list = <<>> THEN <<>> ELSE Tail(list)

\* toplevel_handle_closed, the list: the walk over pp that unlinks t
RECURSIVE Unlink(_, _)
Unlink(list, t) ==
    IF list = <<>> THEN <<>>
    ELSE IF Head(list) = t THEN Tail(list)
    ELSE <<Head(list)>> \o Unlink(Tail(list), t)

\* an announcement that does not link the record
PushNone(list, t) == list

\* toplevel_manager_handle_toplevel, the list: t->next = toplevels; toplevels = t
Push(list, t) == <<t>> \o list

\* toplevel_manager_handle_toplevel, the record: calloc, then t->handle = handle
NewRecord(handle, conn) == [NoRec EXCEPT !.handle = handle, !.conn = conn]

TitleEvent(h, title) ==
    /\ EventReady
    /\ Alive(h)
    /\ rec' = [rec EXCEPT ![h] = toplevel_handle_title(rec[h], title)]
    /\ freed' = <<>>
    /\ calls' = <<>>
    /\ Consume
    /\ UNCHANGED <<simple_callback, display, registry, toplevel_manager, toplevels,
                   conns, regs, mgrs, pc, ret, lastAct>>
    /\ twice' = {}

AppIdEvent(h, app_id) ==
    /\ EventReady
    /\ Alive(h)
    /\ rec' = [rec EXCEPT ![h] = toplevel_handle_app_id(rec[h], app_id)]
    /\ freed' = <<>>
    /\ calls' = <<>>
    /\ Consume
    /\ UNCHANGED <<simple_callback, display, registry, toplevel_manager, toplevels,
                   conns, regs, mgrs, pc, ret, lastAct>>
    /\ twice' = {}

StateEvent(h, state) ==
    /\ EventReady
    /\ Alive(h)
    /\ rec' = [rec EXCEPT ![h] = toplevel_handle_state(rec[h], state)]
    /\ calls' = StateNotify(rec[h], rec'[h], simple_callback)
    /\ lastAct' = [lastAct EXCEPT ![h] = HasActivated(state)]
    /\ freed' = <<>>
    /\ Consume
    /\ UNCHANGED <<simple_callback, display, registry, toplevel_manager, toplevels,
                   conns, regs, mgrs, pc, ret>>
    /\ twice' = {}

\* toplevel_handle_done, and the inert output_enter, output_leave, parent
DoneEvent(h) ==
    /\ EventReady
    /\ Alive(h)
    /\ calls' = <<>>
    /\ freed' = <<>>
    /\ Consume
    /\ UNCHANGED <<simple_callback, display, registry, toplevel_manager, toplevels,
                   rec, conns, regs, mgrs, pc, ret, lastAct>>
    /\ twice' = {}

ClosedEvent(h) ==
    /\ EventReady
    /\ Alive(h)
    /\ toplevels' = Unlink(toplevels, h)
    /\ rec' = [rec EXCEPT ![h] = NoRec]
    /\ freed' = <<Obj("handle", h), Obj("record", h)>>
    /\ lastAct' = [lastAct EXCEPT ![h] = FALSE]
    /\ calls' = <<>>
    /\ Consume
    /\ UNCHANGED <<simple_callback, display, registry, toplevel_manager,
                   conns, regs, mgrs, pc, ret>>
    /\ twice' = {}

\* toplevel_manager_handle_toplevel: the compositor announces a new handle h
\* on the manager proxy m
ToplevelEvent(m, h) ==
    /\ EventReady
    /\ MgrAlive(m)
    /\ rec[h].handle = NULL
    /\ \A k \in Handles : rec[k].handle = NULL => h <= k      \* calloc's choice
    /\ rec' = [rec EXCEPT ![h] = NewRecord(h, display)]
    /\ toplevels' = Push(toplevels, h)
    /\ lastAct' = [lastAct EXCEPT ![h] = FALSE]
    /\ calls' = <<>>
    /\ freed' = <<>>
    /\ Consume
    /\ UNCHANGED <<simple_callback, display, registry, toplevel_manager,
                   conns, regs, mgrs, pc, ret>>
    /\ twice' = {}

\* toplevel_manager_handle_finished on the manager proxy m
FinishedEvent(m) ==
    /\ EventReady
    /\ MgrAlive(m)
    /\ toplevel_manager' = NULL
    /\ LET reach == Reach(display, registry, NULL, mgrs, toplevels, rec)
       IN /\ mgrs' = ForgetMgrs(reach, [mgrs EXCEPT ![m] = NoMgr])
          /\ conns' = ForgetConns(reach, conns)
          /\ regs' = ForgetRegs(reach, regs)
    /\ freed' = <<Obj("manager", m)>>
    /\ calls' = <<>>
    /\ Consume
    /\ UNCHANGED <<simple_callback, display, registry, toplevels, rec,
                   pc, ret, lastAct>>
    /\ twice' = {}

\* the manager proxy wl_registry_bind allocates
FreeMgr == CHOOSE m \in Mgrs : mgrs[m].st # "live" /\ \A k \in Mgrs : mgrs[k].st # "live" => m <= k

\* registry_handle_global: isManager is the result of the strcmp
GlobalEvent(isManager) ==
    /\ GlobalReady
    /\ regs[display] = "live"
    /\ IF isManager
       THEN /\ \E m \in Mgrs : mgrs[m].st # "live"
            /\ toplevel_manager' = FreeMgr
            /\ LET bound == [mgrs EXCEPT ![FreeMgr] = [st |-> "live", conn |-> display]]
                   reach == Reach(display, registry, FreeMgr, bound, toplevels, rec)
               IN /\ mgrs' = ForgetMgrs(reach, bound)
                  /\ conns' = ForgetConns(reach, conns)
                  /\ regs' = ForgetRegs(reach, regs)
       ELSE UNCHANGED <<mgrs, toplevel_manager, conns, regs>>
    /\ calls' = <<>>
    /\ freed' = <<>>
    /\ Consume
    /\ UNCHANGED <<simple_callback, display, registry, toplevels, rec,
                   pc, ret, lastAct>>
    /\ twice' = {}

\* dispatch_queue returns: -1 once the error is set, else the count
DispatchReturns == wl.last_error # "none" \/ wl.queue = 0
DispatchResult == IF wl.last_error # "none" THEN -1 ELSE 0

Quiet == calls' = <<>> /\ freed' = <<>>

\* a read of the socket on the wl_display w: n events are queued; with e the
\* read also meets a wl_display.error (dispatch_queue hands the display
\* queue's events out first, so the error is set before any of the n events
\* is dispatched) or the end of the stream
Arrive(w, n, e) ==
    [w EXCEPT !.queue = n, !.last_error = IF e THEN "error" ELSE "none"]
Returned(op, val) == [op |-> op, val |-> val]

\* a set_callback that keeps the callback it already has
SetCallbackFirstWins(cb) ==
    /\ pc = "idle"
    /\ simple_callback' = IF simple_callback # NULL THEN simple_callback ELSE cb
    /\ ret' = [op |-> "none", val |-> 0]
    /\ calls' = <<>>
    /\ freed' = <<>>
    /\ twice' = {}
    /\ UNCHANGED <<display, registry, toplevel_manager, toplevels, rec, conns, regs,
                   mgrs, wl, pc, lastAct>>

\* ---- wlr_toplevel_set_callback
SetCallback(cb) ==
    /\ pc = "idle"
    /\ simple_callback' = cb
    /\ ret' = NoRet
    /\ Quiet
    /\ UNCHANGED <<display, registry, toplevel_manager, toplevels, rec, conns, regs,
                   mgrs, wl, pc, lastAct>>
    /\ twice' = {}

\* ---- wlr_toplevel_init

\* a connection no open socket and no leaked proxy names
ConnFree(c) ==
    /\ conns[c] # "open"
    /\ regs[c] # "live"
    /\ \A m \in Mgrs : ~(mgrs[m].st = "live" /\ mgrs[m].conn = c)
    /\ \A h \in Handles : rec[h].conn # c
FreeConn == CHOOSE c \in Conns : ConnFree(c) /\ \A k \in Conns : ConnFree(k) => c <= k

\* wl_display_connect fails: display = NULL; return 0
InitConnectFails ==
    /\ pc = "idle"
    /\ display' = NULL
    /\ LET reach == Reach(NULL, registry, toplevel_manager, mgrs, toplevels, rec)
       IN /\ mgrs' = ForgetMgrs(reach, mgrs)
          /\ conns' = ForgetConns(reach, conns)
          /\ regs' = ForgetRegs(reach, regs)
    /\ wl' = NoWl
    /\ ret' = Returned("init", 0)
    /\ Quiet
    /\ UNCHANGED <<simple_callback, registry, toplevel_manager, toplevels, rec,
                   pc, lastAct>>
    /\ twice' = {}

\* wl_display_connect, wl_display_get_registry, and the first round-trip starts:
\* n global events arrive before its sync is done
InitConnect(n, e) ==
    /\ pc = "idle"
    /\ \E c \in Conns : ConnFree(c)
    /\ display' = FreeConn
    /\ registry' = FreeConn
    /\ LET reach == Reach(FreeConn, FreeConn, toplevel_manager, mgrs, toplevels, rec)
       IN /\ mgrs' = ForgetMgrs(reach, mgrs)
          /\ conns' = ForgetConns(reach, [conns EXCEPT ![FreeConn] = "open"])
          /\ regs' = ForgetRegs(reach, [regs EXCEPT ![FreeConn] = "live"])
    /\ wl' = Arrive(NoWl, n, e)
    /\ pc' = "init_rt1"
    /\ ret' = NoRet
    /\ Quiet
    /\ UNCHANGED <<simple_callback, toplevel_manager, toplevels, rec,
                   lastAct>>
    /\ twice' = {}

\* the first round-trip is over and no manager is bound:
\* wl_registry_destroy(registry); wl_display_disconnect(display); display = NULL
InitNoManager ==
    /\ pc = "init_rt1"
    /\ DispatchReturns
    /\ toplevel_manager = NULL
    /\ regs' = [regs EXCEPT ![registry] = "dead"]
    /\ conns' = [conns EXCEPT ![display] = "closed"]
    /\ freed' = <<Obj("registry", registry), Obj("display", display)>>
    /\ display' = NULL
    /\ wl' = NoWl
    /\ ret' = Returned("init", 0)
    /\ pc' = "idle"
    /\ calls' = <<>>
    /\ UNCHANGED <<simple_callback, registry, toplevel_manager, toplevels, rec, mgrs,
                   lastAct>>
    /\ twice' = {}

\* the first round-trip is over and a manager is held: the second one starts
\* (it returns at once on a connection whose error is set)
InitSecondRoundtrip(n, e) ==
    /\ pc = "init_rt1"
    /\ DispatchReturns
    /\ toplevel_manager # NULL
    /\ wl' = IF wl.last_error # "none" THEN wl ELSE Arrive(wl, n, e)
    /\ pc' = "init_rt2"
    /\ ret' = NoRet
    /\ Quiet
    /\ UNCHANGED <<simple_callback, display, registry, toplevel_manager, toplevels,
                   rec, conns, regs, mgrs, lastAct>>
    /\ twice' = {}

\* the second round-trip is over: return 1
InitReturn ==
    /\ pc = "init_rt2"
    /\ DispatchReturns
    /\ ret' = Returned("init", 1)
    /\ pc' = "idle"
    /\ Quiet
    /\ UNCHANGED <<simple_callback, display, registry, toplevel_manager, toplevels,
                   rec, conns, regs, mgrs, wl, lastAct>>
    /\ twice' = {}

\* ---- wlr_toplevel_dispatch

\* || in the place of &&
DispatchValueEither(pending, flush) == IF pending >= 0 \/ flush >= 0 THEN 1 ELSE 0

\* the value of  dispatch_pending >= 0 && flush >= 0
DispatchValue(pending, flush) == IF pending >= 0 /\ flush >= 0 THEN 1 ELSE 0

\* if (!display) return 0; else wl_display_dispatch_pending starts
DispatchCall ==
    /\ pc = "idle"
    /\ IF display = NULL
       THEN /\ ret' = Returned("dispatch", 0)
            /\ UNCHANGED pc
       ELSE /\ pc' = "dispatch"
            /\ ret' = NoRet
    /\ Quiet
    /\ UNCHANGED <<simple_callback, display, registry, toplevel_manager, toplevels,
                   rec, conns, regs, mgrs, wl, lastAct>>
    /\ twice' = {}

\* wl_display_dispatch_pending failed: && does not evaluate wl_display_flush
DispatchFails ==
    /\ pc = "dispatch"
    /\ DispatchReturns
    /\ DispatchResult < 0
    /\ ret' = Returned("dispatch", DispatchValue(DispatchResult, 0))
    /\ pc' = "idle"
    /\ Quiet
    /\ UNCHANGED <<simple_callback, display, registry, toplevel_manager, toplevels,
                   rec, conns, regs, mgrs, wl, lastAct>>
    /\ twice' = {}

\* wl_display_dispatch_pending succeeded; wl_display_flush sends ("ok") or
\* fails, with ("fatal") or without ("eagain") setting the connection's error
DispatchFlush(f) ==
    /\ pc = "dispatch"
    /\ DispatchReturns
    /\ DispatchResult >= 0
    /\ wl' = IF f = "fatal" THEN [wl EXCEPT !.last_error = "error"] ELSE wl
    /\ ret' = Returned("dispatch",
                       DispatchValue(DispatchResult, IF f = "ok" THEN 0 ELSE -1))
    /\ pc' = "idle"
    /\ Quiet
    /\ UNCHANGED <<simple_callback, display, registry, toplevel_manager, toplevels,
                   rec, conns, regs, mgrs, lastAct>>
    /\ twice' = {}

\* ---- wlr_toplevel_get_fd
wl_display_get_fd(d) == d + 2

\* get_fd without the test of display
wlr_toplevel_get_fd_unguarded == wl_display_get_fd(display)

\* return display ? wl_display_get_fd(display) : -1
wlr_toplevel_get_fd == IF display = NULL THEN -1 ELSE wl_display_get_fd(display)

GetFd ==
    /\ pc = "idle"
    /\ ret' = Returned("get_fd", wlr_toplevel_get_fd)
    /\ Quiet
    /\ UNCHANGED <<simple_callback, display, registry, toplevel_manager, toplevels,
                   rec, conns, regs, mgrs, wl, pc, lastAct>>
    /\ twice' = {}

\* ---- wlr_toplevel_read_events

\* wl_display_prepare_read: 0 and one more read intent when the default queue
\* is empty, -1 otherwise
wl_display_prepare_read(w) == IF w.queue = 0 THEN 0 ELSE -1

\* if (display) { ... }
ReadCall ==
    /\ pc = "idle"
    /\ IF display = NULL
       THEN /\ ret' = Returned("read_events", 0)
            /\ UNCHANGED pc
       ELSE /\ pc' = "read_prepare"
            /\ ret' = NoRet
    /\ Quiet
    /\ UNCHANGED <<simple_callback, display, registry, toplevel_manager, toplevels,
                   rec, conns, regs, mgrs, wl, lastAct>>
    /\ twice' = {}

\* the loop's test: while (wl_display_prepare_read(display) != 0)
ReadPrepare ==
    /\ pc = "read_prepare"
    /\ IF wl_display_prepare_read(wl) = 0
       THEN /\ wl' = [wl EXCEPT !.reader_count = @ + 1]
            /\ pc' = "read_poll"
       ELSE /\ pc' = "read_drain"
            /\ UNCHANGED wl
    /\ ret' = NoRet
    /\ Quiet
    /\ UNCHANGED <<simple_callback, display, registry, toplevel_manager, toplevels,
                   rec, conns, regs, mgrs, lastAct>>
    /\ twice' = {}

\* the loop's body, wl_display_dispatch_pending, returns; its value is dropped
ReadDrained ==
    /\ pc = "read_drain"
    /\ DispatchReturns
    /\ pc' = "read_prepare"
    /\ ret' = NoRet
    /\ Quiet
    /\ UNCHANGED <<simple_callback, display, registry, toplevel_manager, toplevels,
                   rec, conns, regs, mgrs, wl, lastAct>>
    /\ twice' = {}

\* what poll(&pfd, 1, 0) can report: the descriptor is readable (data, or the
\* compositor closed the socket), it is not, or the call failed
PollResults == {"data", "nodata", "fail"}

\* the branch taken on poll's result: poll(...) > 0
PollReads(p) == p = "data"

\* wl_display_flush; its value is dropped, a fatal failure sets the error
Flushed(w, f) ==
    IF f = "fatal" /\ w.last_error = "none" THEN [w EXCEPT !.last_error = "error"] ELSE w

\* wl_display_read_events: the read intent is given up; on a connection whose
\* error is set nothing is read, otherwise the socket is
wl_display_read_events(w, n, e) ==
    IF w.last_error # "none"
    THEN [w EXCEPT !.reader_count = @ - 1]
    ELSE [Arrive(w, n, e) EXCEPT !.reader_count = @ - 1]

\* a cancel that leaves the read intent in place
wl_display_cancel_read_omitted(w) == w

\* wl_display_cancel_read
wl_display_cancel_read(w) == [w EXCEPT !.reader_count = @ - 1]

\* wl_display_flush, poll, then wl_display_read_events or wl_display_cancel_read
ReadPoll(f, p, n, e) ==
    /\ pc = "read_poll"
    /\ IF PollReads(p)
       THEN /\ wl' = wl_display_read_events(Flushed(wl, f), n, e)
            /\ pc' = "read_dispatch"
            /\ ret' = NoRet
       ELSE /\ wl' = wl_display_cancel_read(Flushed(wl, f))
            /\ pc' = "idle"
            /\ ret' = Returned("read_events", 0)
    /\ Quiet
    /\ UNCHANGED <<simple_callback, display, registry, toplevel_manager, toplevels,
                   rec, conns, regs, mgrs, lastAct>>
    /\ twice' = {}

\* the last wl_display_dispatch_pending returns, and so does read_events
ReadReturn ==
    /\ pc = "read_dispatch"
    /\ DispatchReturns
    /\ pc' = "idle"
    /\ ret' = Returned("read_events", 0)
    /\ Quiet
    /\ UNCHANGED <<simple_callback, display, registry, toplevel_manager, toplevels,
                   rec, conns, regs, mgrs, wl, lastAct>>
    /\ twice' = {}

\* ---- wlr_toplevel_cleanup

\* a cleanup without the loop over the list
FreeListNone(list, heap, log, bad) == [heap |-> heap, log |-> log, bad |-> bad]

\* the while loop over the list: the heap, the releases and the releases of
\* memory that was already released
RECURSIVE FreeList(_, _, _, _)
FreeList(list, heap, log, bad) ==
    IF list = <<>> THEN [heap |-> heap, log |-> log, bad |-> bad]
    ELSE LET t == Head(list)
         IN IF heap[t].handle = NULL
            THEN FreeList(Tail(list), heap, log \o <<Obj("record", t)>>,
                          bad \cup {Obj("record", t)})
            ELSE FreeList(Tail(list), [heap EXCEPT ![t] = NoRec],
                          log \o <<Obj("handle", t), Obj("record", t)>>,
                          bad)

\* the three guarded releases after the loop: what is released, in order
CleanupTail ==
    (IF toplevel_manager # NULL THEN <<Obj("manager", toplevel_manager)>> ELSE <<>>)
    \o (IF registry # NULL THEN <<Obj("registry", registry)>> ELSE <<>>)
    \o (IF display # NULL THEN <<Obj("display", display)>> ELSE <<>>)

\* of these, the ones that are not alive any more
CleanupTailBad ==
    (IF toplevel_manager # NULL /\ mgrs[toplevel_manager].st # "live"
     THEN {Obj("manager", toplevel_manager)} ELSE {})
    \cup (IF registry # NULL /\ regs[registry] # "live"
          THEN {Obj("registry", registry)} ELSE {})
    \cup (IF display # NULL /\ conns[display] # "open"
          THEN {Obj("display", display)} ELSE {})

\* releasing an object that is not alive is undefined: the call may return
\* (crash = FALSE) or the process may end (crash = TRUE)
Cleanup(crash) ==
    /\ pc = "idle"
    /\ LET r == FreeList(toplevels, rec, <<>>, {})
           bad == r.bad \cup CleanupTailBad
       IN /\ rec' = r.heap
          /\ freed' = r.log \o CleanupTail
          /\ twice' = bad
          /\ crash => bad # {}
          /\ pc' = IF crash THEN "crashed" ELSE "idle"
    /\ toplevels' = <<>>
    /\ mgrs' = ForgetMgrs({}, mgrs)
    /\ toplevel_manager' = NULL
    /\ regs' = ForgetRegs({}, regs)
    /\ registry' = NULL
    /\ conns' = ForgetConns({}, conns)
    /\ display' = NULL
    /\ wl' = NoWl
    /\ lastAct' = [h \in Handles |-> FALSE]
    /\ ret' = Returned("cleanup", 0)
    /\ calls' = <<>>
    /\ UNCHANGED simple_callback

\* ---- the specification

Next ==
    \/ \E cb \in Callbacks \cup {NULL} : SetCallback(cb)
    \/ InitConnectFails
    \/ \E a \in Arrivals : InitConnect(a[1], a[2])
    \/ InitNoManager
    \/ \E a \in Arrivals : InitSecondRoundtrip(a[1], a[2])
    \/ InitReturn
    \/ DispatchCall
    \/ DispatchFails
    \/ \E f \in {"ok", "eagain", "fatal"} : DispatchFlush(f)
    \/ GetFd
    \/ ReadCall
    \/ ReadPrepare
    \/ ReadDrained
    \/ \E f \in {"ok", "fatal"}, p \in PollResults, a \in Arrivals :
          ReadPoll(f, p, a[1], a[2])
    \/ ReadReturn
    \/ \E crash \in BOOLEAN : Cleanup(crash)
    \/ \E h \in Handles, t \in Titles \cup {NoText} : TitleEvent(h, t)
    \/ \E h \in Handles, a \in AppIds \cup {NoText} : AppIdEvent(h, a)
    \/ \E h \in Handles, s \in StateArrays : StateEvent(h, s)
    \/ \E h \in Handles : DoneEvent(h)
    \/ \E h \in Handles : ClosedEvent(h)
    \/ \E m \in Mgrs, h \in Handles : ToplevelEvent(m, h)
    \/ \E m \in Mgrs : FinishedEvent(m)
    \/ \E g \in BOOLEAN : GlobalEvent(g)

Spec == Init /\ [][Next]_vars

\* The host's thread never stops on its own: inside an entry point the next
\* statement runs, and between entry points the host's loop makes the next call.
LiveSpec == Spec /\ WF_vars(Next)

\* ---- the claims

Elems(list) == {list[i] : i \in 1..Len(list)}
NoDuplicates(list) == \A i, j \in 1..Len(list) : i # j => list[i] # list[j]
InReadEvents == pc \in {"read_prepare", "read_drain", "read_poll", "read_dispatch"}

\* C1, as the code has it: a state event on a record calls the callback, once,
\* exactly when the event holds the activated flag, the record's previous state
\* event (if it had one) did not, and a callback is registered at that moment;
\* no other step calls the callback.
NotifyOncePerRunIfRegistered ==
    [][/\ \A h \in Handles, s \in StateArrays :
            StateEvent(h, s) =>
                /\ Len(calls') <= 1
                /\ calls' # <<>> <=>
                      (HasActivated(s) /\ ~lastAct[h] /\ simple_callback # NULL)
                /\ calls' # <<>> => calls'[1].h = h
       /\ calls' # <<>> => \E h \in Handles, s \in StateArrays : StateEvent(h, s)
      ]_vars

\* C1, as the spec has it: the callback is called on the first activated state
\* event of every run, whether or not a callback is registered then.
NotifyOncePerRun ==
    [][\A h \in Handles, s \in StateArrays :
          StateEvent(h, s) =>
              (Len(calls') = 1 <=> (HasActivated(s) /\ ~lastAct[h]))
      ]_vars

\* C1: a record's run of activated state events has begun and its first event
\* has just been reported.
NotifiedFirstOfRun ==
    \E h \in Handles : lastAct[h] /\ calls # <<>> /\ calls[1].h = h

\* C2: every call of the callback goes to the registered callback with
\* focused = 1 and with the app_id and the title the notifying record holds,
\* "" in the place of a field that is NULL.
CallbackArguments ==
    \A i \in 1..Len(calls) :
        LET c == calls[i]
            t == rec[c.h]
        IN /\ c.cb = simple_callback
           /\ c.focused = 1
           /\ t.handle = c.h
           /\ c.app_id = IF t.app_id = NoText THEN "" ELSE t.app_id
           /\ c.title = IF t.title = NoText THEN "" ELSE t.title

\* C2: a record without a title is reported with "" while the other record
\* holds a title.
NotifiedWithoutTitle ==
    /\ calls # <<>>
    /\ calls[1].title = ""
    /\ calls[1].app_id = "editor"
    /\ \E k \in Handles : k # calls[1].h /\ rec[k].title = "notes"

\* C3: when wlr_toplevel_init returns 0 the module holds no connection, no
\* wl_registry and no manager.
InitFailureReleasesAll ==
    ret = Returned("init", 0) =>
        display = NULL /\ registry = NULL /\ toplevel_manager = NULL

\* C4: wlr_toplevel_cleanup ends without a fault, releases nothing that is
\* not alive, and leaves nothing held.
CleanupIsSafe ==
    /\ pc # "crashed"
    /\ ret.op = "cleanup" =>
          /\ twice = {}
          /\ display = NULL /\ registry = NULL /\ toplevel_manager = NULL
          /\ toplevels = <<>>

\* C5, as the code has it: one read intent is outstanding between the
\* prepare-read and its commit or cancel and none anywhere else; when
\* wlr_toplevel_read_events returns on a connection that has recorded no
\* error, a prepare-read issued next succeeds.
ReadIntentBalanced ==
    /\ wl.reader_count = (IF pc = "read_poll" THEN 1 ELSE 0)
    /\ (ret.op = "read_events" /\ display # NULL /\ wl.last_error = "none")
          => wl_display_prepare_read(wl) = 0

\* C5, as the spec has it: whenever wlr_toplevel_read_events returns, no read
\* intent is outstanding and a prepare-read issued next succeeds.
ReadIntentBalancedAndFree ==
    (ret.op = "read_events" /\ display # NULL)
        => wl.reader_count = 0 /\ wl_display_prepare_read(wl) = 0

\* C5: wlr_toplevel_read_events has returned on a live connection that tracks
\* a toplevel.
ReadEventsReturned ==
    /\ ret.op = "read_events"
    /\ display # NULL
    /\ wl.last_error = "none"
    /\ wl.reader_count = 0
    /\ toplevels # <<>>

\* C6: every call to wlr_toplevel_read_events returns: from any position
\* inside it, and in particular from the loop that retries
\* wl_display_prepare_read after wl_display_dispatch_pending, the thread gets
\* back to the host.
ReadEventsReturns == InReadEvents ~> (pc = "idle")

NoConnectionNoWork ==
    [][/\ ret'.op = "get_fd" =>
             ret'.val = (IF display = NULL THEN -1 ELSE wl_display_get_fd(display))
       /\ (ret'.op = "dispatch" /\ display = NULL) => ret'.val = 0
       /\ (ret'.op = "read_events" /\ display = NULL) =>
             UNCHANGED <<simple_callback, display, registry, toplevel_manager,
                         toplevels, rec, conns, regs, mgrs, wl, pc>>
       /\ (ret' = Returned("init", 0) \/ ret'.op = "cleanup") => display' = NULL
      ]_vars

\* C8: wlr_toplevel_get_fd has returned -1 after an init that failed for want
\* of a manager.
GetFdWithoutConnection ==
    ret = Returned("get_fd", -1) /\ display = NULL /\ registry # NULL

\* C9: the list never holds a record twice nor two records of one handle, it
\* holds exactly the allocated records, a closed event unlinks and frees the
\* record of its handle and no other, and no record or handle is released
\* again later.
RecordsUnique ==
    [][/\ NoDuplicates(toplevels')
       /\ \A h \in Handles : rec'[h].handle # NULL <=> h \in Elems(toplevels')
       /\ \A h \in Handles : rec'[h].handle # NULL => rec'[h].handle = h
       /\ \A h \in Handles :
             ClosedEvent(h) =>
                 /\ h \in Elems(toplevels)
                 /\ Elems(toplevels') = Elems(toplevels) \ {h}
                 /\ Len(toplevels') = Len(toplevels) - 1
                 /\ \A k \in Handles \ {h} : rec'[k] = rec[k]
       /\ NoDuplicates(freed')
       /\ \A o \in twice' : o.kind \notin {"record", "handle"}
      ]_vars

\* C9: of two records the older one, at the tail of the list, has just been
\* closed.
ClosedTheOlderRecord ==
    /\ freed = <<Obj("handle", 1), Obj("record", 1)>>
    /\ toplevels = <<2>>

\* C10: a title event leaves its value, or NULL for an absent one, as the
\* record's title, and an app_id event likewise as its app_id; neither changes
\* the record's other string, its focused flag, or another record.
FieldIsReplaced ==
    [][/\ \A h \in Handles, t \in Titles \cup {NoText} :
             TitleEvent(h, t) =>
                 /\ rec'[h] = [rec[h] EXCEPT !.title = t]
                 /\ \A k \in Handles \ {h} : rec'[k] = rec[k]
       /\ \A h \in Handles, a \in AppIds \cup {NoText} :
             AppIdEvent(h, a) =>
                 /\ rec'[h] = [rec[h] EXCEPT !.app_id = a]
                 /\ \A k \in Handles \ {h} : rec'[k] = rec[k]
      ]_vars

\* C10: a focused record holds a title and no app_id.
TitleSetAppIdAbsent ==
    \E h \in Handles :
        rec[h].title = "notes" /\ rec[h].app_id = NoText /\ rec[h].focused = 1

\* C11: when wlr_toplevel_init returns 1, every event the second round-trip
\* read, the manager's initial burst, has been dispatched to its listener.
InitBurstApplied ==
    ret = Returned("init", 1) => wl.queue = 0

\* C12, as the code has it: a state event on a record calls the callback for
\* no other record and leaves every other record as it is; when it holds the
\* activated flag, the record's previous state event (if any) did not, and a
\* callback is registered, exactly one call is made, for this record, whatever
\* the focus of the other records.
StateEventFrameIfRegistered ==
    [][\A h \in Handles, s \in StateArrays :
          StateEvent(h, s) =>
              /\ \A k \in Handles \ {h} : rec'[k] = rec[k]
              /\ \A i \in 1..Len(calls') : calls'[i].h = h
              /\ (HasActivated(s) /\ ~lastAct[h] /\ simple_callback # NULL)
                    => Len(calls') = 1
      ]_vars

\* C12, as the spec has it: the one call for the newly activated record is
\* made whether or not a callback is registered.
StateEventFrame ==
    [][\A h \in Handles, s \in StateArrays :
          StateEvent(h, s) =>
              /\ \A k \in Handles \ {h} : rec'[k] = rec[k]
              /\ \A i \in 1..Len(calls') : calls'[i].h = h
              /\ (HasActivated(s) /\ ~lastAct[h]) => Len(calls') = 1
      ]_vars

\* C12: a record has just been reported while the other record is focused.
NotifiedWhileOtherFocused ==
    /\ calls # <<>>
    /\ \E k \in Handles : k # calls[1].h /\ rec[k].focused = 1

\* C13: wlr_toplevel_set_callback can be called whenever the host has the
\* thread, stores its argument in the place of the callback held before and
\* changes nothing else; nothing else changes the callback, and every call
\* goes to the callback held when it is made.
LastCallbackWins ==
    [][/\ \A cb \in Callbacks \cup {NULL} :
             SetCallback(cb) =>
                 /\ simple_callback' = cb
                 /\ calls' = <<>>
                 /\ UNCHANGED <<display, registry, toplevel_manager, toplevels,
                                rec, conns, regs, mgrs, wl, pc>>
       /\ simple_callback' # simple_callback =>
             \E cb \in Callbacks \cup {NULL} : SetCallback(cb)
       /\ \A i \in 1..Len(calls') :
             calls'[i].cb = simple_callback /\ calls'[i].cb # NULL
       /\ pc = "idle" => \A cb \in Callbacks \cup {NULL} : ENABLED SetCallback(cb)
      ]_vars

\* C13: the second callback has been called on a connection.
NotifiedSecondCallback ==
    calls # <<>> /\ calls[1].cb = 2 /\ display # NULL

\* the place of an object in the order of cleanup's releases
ReleaseRank(o) ==
    CASE o.kind \in {"handle", "record"} -> 1
      [] o.kind = "manager" -> 2
      [] o.kind = "registry" -> 3
      [] o.kind = "display" -> 4

\* the connection an object belongs to
ConnOf(o) ==
    CASE o.kind \in {"handle", "record"} -> rec[o.id].conn
      [] o.kind = "manager" -> mgrs[o.id].conn
      [] OTHER -> o.id

\* C14: wlr_toplevel_cleanup releases the records of the list, each once with
\* its handle, then the manager, then the wl_registry, then the connection; and
\* the connection of everything it releases is still open when it starts.
CleanupOrder ==
    [][ret'.op = "cleanup" =>
          /\ \A i, j \in 1..Len(freed') :
                i < j => (freed'[i] # freed'[j]
                          /\ ReleaseRank(freed'[i]) <= ReleaseRank(freed'[j]))
          /\ \A h \in Elems(toplevels) :
                \E i \in 1..Len(freed') : freed'[i] = Obj("record", h)
          /\ toplevel_manager # NULL =>
                \E i \in 1..Len(freed') : freed'[i] = Obj("manager", toplevel_manager)
          /\ \A i \in 1..Len(freed') :
                ConnOf(freed'[i]) \in Conns /\ conns[ConnOf(freed'[i])] = "open"
      ]_vars

\* C15: a closed event releases the handle and the record (its strings with
\* it), takes the record out of the list and leaves the rest of the list and
\* the other records as they are; cleanup releases only records and handles
\* that are still allocated.
ClosedReleasesRecord ==
    [][/\ \A h \in Handles :
             ClosedEvent(h) =>
                 /\ freed' = <<Obj("handle", h), Obj("record", h)>>
                 /\ rec'[h] = NoRec
                 /\ h \notin Elems(toplevels')
                 /\ toplevels' = SelectSeq(toplevels, LAMBDA k : k # h)
                 /\ \A k \in Handles \ {h} : rec'[k] = rec[k]
       /\ ret'.op = "cleanup" =>
             \A i \in 1..Len(freed') :
                 freed'[i].kind \in {"record", "handle"} =>
                     rec[freed'[i].id].handle # NULL
      ]_vars

\* C15: the head of the list has just been closed and the other record keeps
\* its title.
ClosedTheNewerRecord ==
    /\ freed = <<Obj("handle", 2), Obj("record", 2)>>
    /\ toplevels = <<1>>
    /\ rec[1].title # NoText

\* C16: a finished event releases the manager it came on, leaves
\* toplevel_manager NULL and the records as they are; no toplevel event creates
\* a record while toplevel_manager is NULL; cleanup releases only a manager
\* that is alive.
FinishedStopsManager ==
    [][/\ \A m \in Mgrs :
             FinishedEvent(m) =>
                 /\ toplevel_manager' = NULL
                 /\ freed' = <<Obj("manager", m)>>
                 /\ toplevels' = toplevels /\ rec' = rec
       /\ \A m \in Mgrs, h \in Handles :
             ToplevelEvent(m, h) => toplevel_manager # NULL
       /\ ret'.op = "cleanup" =>
             \A i \in 1..Len(freed') :
                 freed'[i].kind = "manager" => mgrs[freed'[i].id].st = "live"
      ]_vars

\* C17: a toplevel event allocates one record with its handle, no app_id, no
\* title and focused = 0, and links it into the list in the same step; every
\* title, app_id, state, done and closed event is delivered to a record that
\* is in the list.
AnnounceCreatesRecord ==
    [][/\ \A m \in Mgrs, h \in Handles :
             ToplevelEvent(m, h) =>
                 /\ rec[h].handle = NULL
                 /\ rec'[h].handle = h
                 /\ rec'[h].app_id = NoText /\ rec'[h].title = NoText
                 /\ rec'[h].focused = 0
                 /\ h \in Elems(toplevels')
                 /\ Len(toplevels') = Len(toplevels) + 1
                 /\ \A k \in Handles \ {h} : rec'[k] = rec[k]
       /\ \A h \in Handles :
             (\/ \E t \in Titles \cup {NoText} : TitleEvent(h, t)
              \/ \E a \in AppIds \cup {NoText} : AppIdEvent(h, a)
              \/ \E st \in StateArrays : StateEvent(h, st)
              \/ DoneEvent(h)
              \/ ClosedEvent(h))
             => h \in Elems(toplevels)
      ]_vars

\* C17: a second record has just been announced and linked at the head.
AnnouncedSecondRecord ==
    /\ Len(toplevels) = 2
    /\ rec[toplevels[1]] = [NoRec EXCEPT !.handle = toplevels[1], !.conn = display]
    /\ rec[toplevels[2]].title # NoText
    /\ InDispatch

\* C18: at most one connection is open, one wl_registry alive and one manager
\* alive at any time.
AtMostOneOfEach ==
    /\ Cardinality({c \in Conns : conns[c] = "open"}) <= 1
    /\ Cardinality({c \in Conns : regs[c] = "live"}) <= 1
    /\ Cardinality({m \in Mgrs : mgrs[m].st = "live"}) <= 1

\* C19: wlr_toplevel_cleanup leaves display, registry and toplevel_manager
\* NULL, the list empty and no record allocated, and keeps the callback; an
\* init that follows it starts, as the first one does, from no manager and no
\* record.
CleanupResets ==
    [][/\ ret'.op = "cleanup" =>
             /\ display' = NULL /\ registry' = NULL /\ toplevel_manager' = NULL
             /\ toplevels' = <<>>
             /\ \A h \in Handles : rec'[h] = NoRec /\ ~lastAct'[h]
             /\ wl' = NoWl
             /\ simple_callback' = simple_callback
       /\ (ret.op = "cleanup" /\ pc' = "init_rt1") =>
             /\ toplevel_manager' = NULL
             /\ toplevels' = <<>>
             /\ \A h \in Handles : rec'[h] = NoRec
             /\ wl'.reader_count = 0
      ]_vars

\* C19: a cleanup has released two records, the manager, the wl_registry and
\* the connection, and kept the callback.
CleanedUpConnection ==
    /\ ret.op = "cleanup"
    /\ pc = "idle"
    /\ simple_callback = 2
    /\ {Obj("record", 1), Obj("record", 2), Obj("manager", 1), Obj("registry", 1),
        Obj("display", 1)} \subseteq Elems(freed)

\* C20: an activated state event processed while no callback is registered
\* sets the record's focused flag and calls nothing; set_callback calls
\* nothing; a state event on a record whose flag is set calls nothing; and the
\* flag of a record is cleared only by a state event without the activated
\* flag.
UnreportedFocusStaysSilent ==
    [][/\ \A h \in Handles, s \in StateArrays :
             StateEvent(h, s) =>
                 /\ (HasActivated(s) /\ simple_callback = NULL) =>
                       (rec'[h].focused = 1 /\ calls' = <<>>)
                 /\ rec[h].focused = 1 => calls' = <<>>
       /\ \A cb \in Callbacks \cup {NULL} : SetCallback(cb) => calls' = <<>>
       /\ \A h \in Handles :
             (rec[h].focused = 1 /\ rec'[h].handle = h /\ rec'[h].focused = 0) =>
                 \E s \in StateArrays : StateEvent(h, s) /\ ~HasActivated(s)
      ]_vars

\* C20: during the second round-trip of init a record has become focused
\* with no callback registered, and nothing was called.
FocusedDuringInitUnreported ==
    /\ pc = "init_rt2"
    /\ simple_callback = NULL
    /\ calls = <<>>
    /\ \E h \in Handles : rec[h].focused = 1 /\ lastAct[h]

====
